---- MODULE Spec2Model ----
(***************************************************************************)
(* A model of SampSharp's remote_server (src/SampSharp/remote_server.cpp): *)
(* the command dispatcher, the connection state machine, the request /     *)
(* response multiplexer (tick, public_call, the fake-init start handler)   *)
(* and the debug-pause heuristic.                                          *)
(*                                                                         *)
(* The host is single threaded.  A host call that waits for the client    *)
(* (tick's drain loop, public_call's and cmd_start's cmd_receive_unhandled)*)
(* is a frame on `stack`; every poll of the transport by the top frame is *)
(* one step, so that the client can send between two polls.                *)
(***************************************************************************)
EXTENDS Integers, Sequences, FiniteSets, TLC

(* ------------------------------ bounds --------------------------------- *)
\* commands the client may have in flight towards the bridge
MaxQueue == 1
\* commands received during one host call (tick or public_call)
MaxRecv == 2
\* the same, while the pause heuristic is observed
MaxRecvDebug == 1
\* the same, while a waiting call is observed
MaxRecvWait == 3
\* the same, while native requests are observed
MaxRecvNative == 2
\* the same, while the tick gate is observed
MaxRecvTick == 1
\* the clock stops here while the tick gate is observed
MaxTimeTick == 6
\* nesting of waiting calls: a host call plus nested fake-init round trips
MaxDepth == 2
\* the clock stops here
MaxTime == 12
\* tick is not called again once this many ticks were suppressed in a row
MaxSkipped == 52

(* -------------------------- program constants -------------------------- *)
DEBUG_PAUSE_TIMEOUT == 5
DEBUG_PAUSE_TICK_INTERVAL == 7
DEBUG_PAUSE_TICK_MIN_SKIP == 50

CMD_PING == 1
CMD_PRINT == 2
CMD_RESPONSE == 3
CMD_RECONNECT == 4
CMD_REGISTER_CALL == 5
CMD_FIND_NATIVE == 6
CMD_INVOKE_NATIVE == 7
CMD_START == 8
CMD_DISCONNECT == 9
CMD_ALIVE == 16

CMD_TICK == 17
CMD_PONG == 18
CMD_PUBLIC_CALL == 19
CMD_REPLY == 20
CMD_ANNOUNCE == 21

\* the status bits of remote_server.h, as a set of flag names
StatusFlags ==
    {"client_connected", "client_started", "client_received_init",
     "client_reconnecting", "client_disconnecting", "server_received_init"}

STATUS_SET(st, v) == st \cup v
STATUS_UNSET(st, v) == st \ v
STATUS_ISSET(st, v) == v \subseteq st

(* ------------------------------ encodings ------------------------------ *)
\* little-endian bytes of a 16 bit and of a 32 bit (two's complement) value
LE16(x) == << (x % 65536) % 256, (x % 65536) \div 256 >>
LE32(x) ==
    LET lo == x % 65536
        hi == (x \div 65536) % 65536
    IN << lo % 256, lo \div 256, hi % 256, hi \div 256 >>
\* *(uint32_t *)(p) stored into a cell: the 32 bit value of four
\* little-endian bytes, as the signed cell that holds it
U32(b) ==
    b[1] + 256 * b[2] + 65536 * b[3]
      + 16777216 * (IF b[4] >= 128 THEN b[4] - 256 ELSE b[4])

Cmd(op, data) == [op |-> op, data |-> data]
Last(q) == q[Len(q)]
Front(q) == SubSeq(q, 1, Len(q) - 1)
Drop(q, n) == SubSeq(q, n + 1, Len(q))

VARIABLES
    status_,        \* the status bit field
    comm,           \* the transport: "closed", "ready" (set up), "connected"
    lost,           \* the peer is gone and the transport has not noticed yet
    incoming,       \* commands sent by the client, not yet received
    natives_,       \* native registry: names with a cached handle
    callbacks_,     \* callback registry: registered callback strings
    debug_check_,   \* constructor argument
    sol_,           \* time of the last received command
    tick_,          \* time of the last sent tick
    is_debug_,      \* last classification of is_debugging
    ticks_skipped_, \* ticks suppressed in a row
    now,            \* time(NULL)
    mutex_,         \* the shared lock is held
    stack,          \* the waiting calls, outermost first
    heap,           \* reply buffers allocated during this host call
    effects,        \* handlers run during this host call, in order
    received,       \* commands received during this host call, in order
    halted,         \* "run", or how the process stopped
    ev              \* what the last step did

vars ==
    << status_, comm, lost, incoming, natives_, callbacks_, debug_check_, sol_,
       tick_, is_debug_, ticks_skipped_, now, mutex_, stack, heap, effects,
       received, halted, ev >>

\* the events of one step, before anything happened
NoEv ==
    [ sent     |-> << >>,     \* commands sent to the client, in order
      log      |-> << >>,     \* log lines written, in order
      op       |-> "none",    \* the operation the step ran
      proc     |-> << >>,     \* cmd_process calls: command, status, buffer handed back
      ret      |-> << >>,     \* cmd_receive_unhandled returns
      pcall    |-> << >>,     \* public_call: the status at entry and what it did
      dc       |-> << >>,     \* disconnect calls: arguments, state before and after
      conn     |-> << >>,     \* connect calls: state before and after, what was sent
      dbg      |-> << >>,     \* is_debugging calls
      polls    |-> << >>,     \* the status of each cmd_receive_one call
      locks    |-> 0,         \* mutex_.lock() calls
      unlocks  |-> 0,         \* mutex_.unlock() calls
      badunlock |-> FALSE,    \* a mutex was unlocked that was not held
      bufw     |-> << >>,     \* writes of the shared buffer buf_: was the lock held
      rcon     |-> 0,         \* "gmx" commands issued to the host
      retval   |-> << >>,     \* values stored through retval
      badfree  |-> FALSE,     \* a buffer was released that was not live
      returned |-> FALSE ]    \* control went back to the host in this step

\* the state as one record, the form the operations below work on
Cur ==
    [ status_ |-> status_, comm |-> comm, lost |-> lost, incoming |-> incoming,
      natives_ |-> natives_, callbacks_ |-> callbacks_,
      debug_check_ |-> debug_check_, sol_ |-> sol_, tick_ |-> tick_,
      is_debug_ |-> is_debug_, ticks_skipped_ |-> ticks_skipped_, now |-> now,
      mutex_ |-> mutex_, stack |-> stack, heap |-> heap, effects |-> effects,
      received |-> received, halted |-> halted, ev |-> NoEv,
      \* results handed from one operation to its caller
      stat |-> "none", ok |-> FALSE, cmd |-> Cmd(0, << >>) ]

Commit(s) ==
    /\ status_' = s.status_
    /\ comm' = s.comm
    /\ lost' = s.lost
    /\ incoming' = s.incoming
    /\ natives_' = s.natives_
    /\ callbacks_' = s.callbacks_
    /\ debug_check_' = s.debug_check_
    /\ sol_' = s.sol_
    /\ tick_' = s.tick_
    /\ is_debug_' = s.is_debug_
    /\ ticks_skipped_' = s.ticks_skipped_
    /\ now' = s.now
    /\ mutex_' = s.mutex_
    /\ stack' = s.stack
    /\ heap' = s.heap
    /\ effects' = s.effects
    /\ received' = s.received
    /\ halted' = s.halted
    /\ ev' = s.ev

\* small helpers on the state record
Send(s, op, data) == [s EXCEPT !.ev.sent = Append(@, Cmd(op, data))]
Log(s, line) == [s EXCEPT !.ev.log = Append(@, line)]

(* ------------------- the transport (commsvr, external) ------------------ *)
\* communication_->setup(this): arms the transport, or fails
comm_setup(s, setupOk) == [s EXCEPT !.comm = IF setupOk THEN "ready" ELSE "closed"]

\* communication_->disconnect(): closes the channel; what was in flight is gone
comm_disconnect(s) ==
    [s EXCEPT !.comm = "closed", !.lost = FALSE, !.incoming = << >>]

\* communication_->connect(): a client is there to accept, or not
comm_connect(s, connOk) ==
    IF connOk
    THEN [s EXCEPT !.comm = "connected", !.lost = FALSE, !.incoming = << >>,
                   !.ok = TRUE]
    ELSE [s EXCEPT !.ok = FALSE]

comm_is_connected(s) == s.comm = "connected"
comm_is_ready(s) == s.comm = "ready"

(* ------------------------------ registries ------------------------------ *)
\* the natives the host knows, with their handles; any other name gives -1
NativeHandle(name) == IF name = << 78 >> THEN 3 ELSE -1

\* natives_.get_handle(name): the handle, cached in the registry when found
natives_get_handle(s, name) ==
    IF NativeHandle(name) >= 0
    THEN [s EXCEPT !.natives_ = @ \cup {name}]
    ELSE s

\* natives_.invoke(args): the marshalled result of the native
natives_invoke(args) == LE32(Len(args))

\* callbacks_.register_buffer(buf)
callbacks_register_buffer(s, buf) == [s EXCEPT !.callbacks_ = @ \cup {buf}]

\* the callbacks the host raises, and the byte each is serialised as
PublicNames == {"OnGameModeInit", "OnGameModeExit", "OnPlayerConnect"}
NameCode(name) ==
    CASE name = "OnGameModeInit" -> 1
      [] name = "OnGameModeExit" -> 2
      [] OTHER -> 3

\* callbacks_.fill_call_buffer(...): on success the call is serialised into
\* the shared buffer buf_
fill_call_buffer(s, name, fillOk) ==
    IF fillOk
    THEN [s EXCEPT !.ok = TRUE, !.ev.bufw = Append(@, s.mutex_)]
    ELSE [s EXCEPT !.ok = FALSE]

CallPayload(name) == << NameCode(name) >>

(* ------------------------------ reply buffers --------------------------- *)
\* new uint8_t[buflen] + memcpy: a fresh buffer holding a copy of data
NewBuffer(s, data) ==
    [s EXCEPT !.heap = Append(@, [data |-> data, frees |-> 0])]

\* delete[] p.  Releasing a buffer that is not live is undefined behaviour;
\* it is recorded, and the step that did it may also stop the process.
DeleteBuffer(s, p) ==
    [s EXCEPT !.heap[p].frees = IF @ = 0 THEN 1 ELSE 2,
              !.ev.badfree = @ \/ (s.heap[p].frees > 0)]

(* ------------------------------ the mutex ------------------------------- *)
\* mutex_.lock(): locking a mutex the (only) thread already holds never returns
MutexLock(s) ==
    IF s.mutex_
    THEN [s EXCEPT !.halted = "deadlock", !.ev.locks = @ + 1]
    ELSE [s EXCEPT !.mutex_ = TRUE, !.ev.locks = @ + 1]

MutexUnlock(s) ==
    [s EXCEPT !.mutex_ = FALSE, !.ev.unlocks = @ + 1,
              !.ev.badunlock = @ \/ ~s.mutex_]

(* --------------------------- connection state --------------------------- *)
\* remote_server::store_time
store_time(s) == [s EXCEPT !.sol_ = s.now]

\* remote_server::is_client_connected
is_client_connected(s) ==
    comm_is_connected(s) /\ STATUS_ISSET(s.status_, {"client_connected"})

\* remote_server::cmd_send_announce
cmd_send_announce(s) ==
    Log(Send(s, CMD_ANNOUNCE, << >>), "Server announcement sent.")

\* what a connect call saw and left, for the record of the step
ConnView(s) == [status |-> s.status_, comm |-> s.comm]

\* connect_body announcing itself also when the transport is connected already
connect_body_AlwaysAnnounces(s, setupOk, connOk) ==
    IF comm_is_connected(s) THEN [cmd_send_announce(s) EXCEPT !.ok = TRUE]
    ELSE IF ~comm_is_ready(s) /\ ~setupOk THEN [comm_setup(s, FALSE) EXCEPT !.ok = FALSE]
    ELSE
      LET s1 == IF comm_is_ready(s) THEN s ELSE comm_setup(s, TRUE)
          s2 == comm_connect(s1, connOk)
      IN IF ~s2.ok THEN s2
         ELSE
           LET s3 == [s2 EXCEPT !.status_ = STATUS_SET(@, {"client_connected"})]
               s4 == Log(s3, IF STATUS_ISSET(s3.status_, {"client_reconnecting"})
                             THEN "Client reconnected."
                             ELSE "Connected to client.")
               s5 == [s4 EXCEPT !.status_ = STATUS_UNSET(@, {"client_reconnecting"})]
           IN [cmd_send_announce(s5) EXCEPT !.ok = TRUE]

\* remote_server::connect, lines 229-258; .ok is its return value
connect_body(s, setupOk, connOk) ==
    IF comm_is_connected(s) THEN [s EXCEPT !.ok = TRUE]
    ELSE IF ~comm_is_ready(s) /\ ~setupOk THEN [comm_setup(s, FALSE) EXCEPT !.ok = FALSE]
    ELSE
      LET s1 == IF comm_is_ready(s) THEN s ELSE comm_setup(s, TRUE)
          s2 == comm_connect(s1, connOk)
      IN IF ~s2.ok THEN s2
         ELSE
           LET s3 == [s2 EXCEPT !.status_ = STATUS_SET(@, {"client_connected"})]
               s4 == Log(s3, IF STATUS_ISSET(s3.status_, {"client_reconnecting"})
                             THEN "Client reconnected."
                             ELSE "Connected to client.")
               s5 == [s4 EXCEPT !.status_ = STATUS_UNSET(@, {"client_reconnecting"})]
           IN [cmd_send_announce(s5) EXCEPT !.ok = TRUE]

\* remote_server::connect with the record of the call
connect(s, setupOk, connOk) ==
    LET r == connect_body(s, setupOk, connOk)
    IN [r EXCEPT !.ev.conn = Append(@,
          [pre |-> ConnView(s), post |-> ConnView(r), ok |-> r.ok,
           sent |-> Drop(r.ev.sent, Len(s.ev.sent))])]

\* what a disconnect call saw and left, for the record of the step
DcView(s) ==
    [status |-> s.status_, natives |-> s.natives_, callbacks |-> s.callbacks_,
     comm |-> s.comm, connected |-> is_client_connected(s)]

\* disconnect_outcome with callbacks_.clear() missing from the last branch
disconnect_outcome_KeepsCallbacks(s, expected) ==
    IF expected
    THEN Log(s, "Client disconnected.")
    ELSE IF STATUS_ISSET(s.status_, {"client_disconnecting"})
    THEN [Log(s, "Client disconnected.") EXCEPT
            !.status_ = STATUS_UNSET(@, {"client_started", "client_disconnecting"}),
            !.natives_ = {},
            !.callbacks_ = {}]
    ELSE [Log(s, "Unexpected disconnect of client.") EXCEPT
            !.status_ = STATUS_UNSET(@, {"client_started"}),
            !.natives_ = {}]

\* the three outcomes of remote_server::disconnect (lines 284-306)
disconnect_outcome(s, expected) ==
    IF expected
    THEN Log(s, "Client disconnected.")
    ELSE IF STATUS_ISSET(s.status_, {"client_disconnecting"})
    THEN [Log(s, "Client disconnected.") EXCEPT
            !.status_ = STATUS_UNSET(@, {"client_started", "client_disconnecting"}),
            !.natives_ = {},
            !.callbacks_ = {}]
    ELSE [Log(s, "Unexpected disconnect of client.") EXCEPT
            !.status_ = STATUS_UNSET(@, {"client_started"}),
            !.natives_ = {},
            !.callbacks_ = {}]

\* disconnect without the last line, the clearing of client_connected
disconnect_KeepsConnected(s, context, expected, setupOk) ==
    LET done ==
          IF ~is_client_connected(s) THEN s
          ELSE
            LET s1 == disconnect_outcome(s, expected)
            IN comm_setup(comm_disconnect(s1), setupOk)
    IN [done EXCEPT !.ev.dc = Append(@,
            [context |-> context, expected |-> expected, setup |-> setupOk,
             pre |-> DcView(s), post |-> DcView(done)])]

\* remote_server::disconnect
disconnect(s, context, expected, setupOk) ==
    LET done ==
          IF ~is_client_connected(s) THEN s
          ELSE
            LET s1 == disconnect_outcome(s, expected)
                s2 == comm_setup(comm_disconnect(s1), setupOk)
            IN [s2 EXCEPT !.status_ = STATUS_UNSET(@, {"client_connected"})]
    IN [done EXCEPT !.ev.dc = Append(@,
            [context |-> context, expected |-> expected, setup |-> setupOk,
             pre |-> DcView(s), post |-> DcView(done)])]

\* remote_server::terminate
terminate(s, context, setupOk) == disconnect(s, context, FALSE, setupOk)

(* ------------------------------- frames --------------------------------- *)
\* a waiting call: tick's drain loop, or the cmd_receive_unhandled loop of
\* public_call or of cmd_start.  response is the caller's local pointer (0 is
\* NULL); cmd is the start command a cmd_start frame is handling; seen, eff0,
\* rx0 and nested record what the loop received, where the handler log and
\* the receive log stood when it began, and whether a nested round trip ran
\* inside it.
Frame(kind, name, cmd, s) ==
    [kind |-> kind, name |-> name, cmd |-> cmd, response |-> 0,
     seen |-> << >>, eff0 |-> Len(s.effects), rx0 |-> Len(s.received),
     nested |-> FALSE]

Top(s) == s.stack[Len(s.stack)]
Pop(s) == [s EXCEPT !.stack = Front(@)]
Push(s, f) ==
    [s EXCEPT !.stack = Append([i \in 1..Len(@) |-> [@[i] EXCEPT !.nested = TRUE]], f)]

\* the handler of cmd has run
Ran(s, cmd) == [s EXCEPT !.effects = Append(@, cmd)]

(* ------------------------------- commands ------------------------------- *)
cmd_ping(s, buf) == Send(s, CMD_PONG, << >>)

cmd_print(s, buf) == Log(s, "print")

cmd_alive(s, buf) == s

cmd_register_call(s, buf) == callbacks_register_buffer(s, buf)

\* cmd_find_native without the copy of the caller id
cmd_find_native_NoCallerId(s, buf) ==
    LET name == Drop(buf, 2)
        buftx == << 0, 0 >> \o LE32(NativeHandle(name))
    IN Send(natives_get_handle(s, name), CMD_RESPONSE, buftx)

\* the two bytes of the caller id, then the handle as int32
cmd_find_native(s, buf) ==
    LET name == Drop(buf, 2)
        buftx == SubSeq(buf, 1, 2) \o LE32(NativeHandle(name))
    IN Send(natives_get_handle(s, name), CMD_RESPONSE, buftx)

cmd_invoke_native(s, buf) ==
    LET buftx == SubSeq(buf, 1, 2) \o natives_invoke(Drop(buf, 2))
    IN Send(s, CMD_RESPONSE, buftx)

cmd_reconnect(s, buf, setupOk) ==
    LET s1 == Log(s, "The gamemode is reconnecting.")
        s2 == [s1 EXCEPT !.status_ = STATUS_SET(@, {"client_reconnecting"})]
    IN disconnect(s2, "", TRUE, setupOk)

cmd_disconnect(s, buf) ==
    [Log(s, "The gamemode is disconnecting.") EXCEPT
        !.status_ = STATUS_SET(@, {"client_disconnecting"})]

\* case 2 of cmd_start, lines 149-174: with .stat = "nested" the handler is
\* waiting in cmd_receive_unhandled, as a new frame
cmd_start_fake_gmx(s, cmd, fillOk) ==
    IF ~STATUS_ISSET(s.status_, {"server_received_init"}) THEN s
    ELSE
      LET s1 == [s EXCEPT !.status_ = STATUS_SET(@, {"client_received_init"})]
          s2 == fill_call_buffer(s1, "OnGameModeInit", fillOk)
      IN IF ~s2.ok THEN s2
         ELSE
           LET s3 == Send(s2, CMD_PUBLIC_CALL, CallPayload("OnGameModeInit"))
           IN [Push(s3, Frame("cmd_start", "OnGameModeInit", cmd, s3))
                 EXCEPT !.stat = "nested"]

cmd_start(s, buf, fillOk) ==
    LET s1 == Log(s, "The gamemode has started.")
        s2 == [s1 EXCEPT !.status_ = STATUS_SET(@, {"client_started"}),
                         !.stat = "handled"]
        type == IF Len(buf) = 0 THEN 0 ELSE buf[1]
    IN CASE type = 0 -> s2
         [] type = 1 ->
              IF STATUS_ISSET(s2.status_, {"server_received_init"})
              THEN [s2 EXCEPT !.ev.rcon = @ + 1]
              ELSE s2
         [] type = 2 -> cmd_start_fake_gmx(s2, Cmd(CMD_START, buf), fillOk)
         [] OTHER -> Log(s2, "Invalid game mode start mode")

\* the record of a finished cmd_process call: the command, the status
\* returned, the buffer stored through resp (0: resp was not written) and the
\* number of buffers that existed before the call
ProcEvent(s, cmd, stat, resp, before) ==
    [s EXCEPT !.ev.proc = Append(@,
        [cmd |-> cmd, stat |-> stat, resp |-> resp, before |-> before])]

\* MappedCommands with the line of CMD_ALIVE missing
MappedCommands_NoAlive ==
    {CMD_PING, CMD_PRINT, CMD_REGISTER_CALL, CMD_FIND_NATIVE, CMD_INVOKE_NATIVE,
     CMD_RECONNECT, CMD_DISCONNECT, CMD_START}

\* the commands MAP_COMMAND routes to a handler
MappedCommands ==
    {CMD_PING, CMD_PRINT, CMD_REGISTER_CALL, CMD_FIND_NATIVE, CMD_INVOKE_NATIVE,
     CMD_RECONNECT, CMD_DISCONNECT, CMD_START, CMD_ALIVE}

\* the default case of cmd_process, lines 375-382: the payload is copied into
\* a new buffer stored in the caller's response, unless it is empty
cmd_unhandled(s, cmd) ==
    LET buf == cmd.data
        s1 == IF Len(buf) > 0
              THEN [NewBuffer(s, buf) EXCEPT
                      !.stack[Len(s.stack)].response = Len(s.heap) + 1]
              ELSE s
        resp == IF Len(buf) > 0 THEN Len(s.heap) + 1 ELSE 0
    IN [ProcEvent(s1, cmd, "unhandled", resp, Len(s.heap)) EXCEPT !.stat = "unhandled"]

\* remote_server::cmd_process; .stat is the status it returns, or "nested"
cmd_process(s, cmd, setupOk, fillOk) ==
    LET buf == cmd.data
        s0 == [Ran(s, cmd) EXCEPT !.stat = "handled"]
        h == CASE cmd.op = CMD_PING -> cmd_ping(s0, buf)
               [] cmd.op = CMD_PRINT -> cmd_print(s0, buf)
               [] cmd.op = CMD_REGISTER_CALL -> cmd_register_call(s0, buf)
               [] cmd.op = CMD_FIND_NATIVE -> cmd_find_native(s0, buf)
               [] cmd.op = CMD_INVOKE_NATIVE -> cmd_invoke_native(s0, buf)
               [] cmd.op = CMD_RECONNECT -> cmd_reconnect(s0, buf, setupOk)
               [] cmd.op = CMD_DISCONNECT -> cmd_disconnect(s0, buf)
               [] cmd.op = CMD_START -> cmd_start(s0, buf, fillOk)
               [] cmd.op = CMD_ALIVE -> cmd_alive(s0, buf)
               [] OTHER -> s0
    IN IF cmd.op \in MappedCommands
       THEN IF h.stat = "nested" THEN h
            ELSE ProcEvent(h, cmd, "handled", 0, Len(s.heap))
       ELSE cmd_unhandled(s, cmd)

\* communication_->receive: the channel is found dead (the transport then
\* reports it through terminate), nothing is pending, or one command is read
comm_receive(s, setupOk) ==
    IF s.lost THEN [terminate(s, "channel lost", setupOk) EXCEPT !.stat = "conn_dead"]
    ELSE IF s.incoming = << >> THEN [s EXCEPT !.stat = "no_cmd"]
    ELSE [s EXCEPT !.stat = "cmd", !.cmd = Head(s.incoming),
                   !.incoming = Tail(@),
                   !.ev.bufw = Append(@, s.mutex_)]

\* remote_server::cmd_receive_one, called by the top frame
receive_one_body(s, setupOk, connOk, fillOk) ==
    LET s1 == connect(s, setupOk, connOk)
    IN IF ~s1.ok THEN [s1 EXCEPT !.stat = "conn_dead"]
       ELSE
         LET s2 == comm_receive(s1, setupOk)
         IN IF s2.stat \in {"conn_dead", "no_cmd"} THEN s2
            ELSE
              LET s3 == [store_time(s2) EXCEPT
                           !.received = Append(@, s2.cmd),
                           !.stack[Len(s2.stack)].seen = Append(@, s2.cmd)]
              IN cmd_process(s3, s2.cmd, setupOk, fillOk)

cmd_receive_one(s, setupOk, connOk, fillOk) ==
    LET r == receive_one_body(s, setupOk, connOk, fillOk)
    IN [r EXCEPT !.ev.polls = Append(@, r.stat)]

(* -------------------------- debug-pause heuristic ------------------------ *)
\* the tick path of is_debugging, lines 205-218; .ok = TRUE is the keepalive
\* return
is_debugging_tick(s, new_debug) ==
    IF new_debug /\ s.is_debug_
    THEN IF s.now - s.tick_ >= DEBUG_PAUSE_TICK_INTERVAL
            /\ s.ticks_skipped_ > DEBUG_PAUSE_TICK_MIN_SKIP
         THEN [Log(s, "Keepalive tick.") EXCEPT !.ticks_skipped_ = 0, !.ok = TRUE]
         ELSE [s EXCEPT !.ticks_skipped_ = @ + 1, !.ok = FALSE]
    ELSE IF ~new_debug /\ s.ticks_skipped_ # 0
    THEN [s EXCEPT !.ticks_skipped_ = 0, !.ok = FALSE]
    ELSE [s EXCEPT !.ok = FALSE]

\* new_debug measured from the current time instead of the last sent tick
new_debug_FromNow(s) == s.now - s.sol_ >= DEBUG_PAUSE_TIMEOUT

\* the classification of is_debugging, line 196
new_debug(s) == s.tick_ - s.sol_ >= DEBUG_PAUSE_TIMEOUT

\* remote_server::is_debugging; .ok is its return value
is_debugging(s, is_tick) ==
    LET nd == new_debug(s)
        s1 == IF nd /\ ~s.is_debug_ THEN Log(s, "Debugger pause detected.")
              ELSE IF ~nd /\ s.is_debug_ THEN Log(s, "Debugger resume detected.")
              ELSE s
        s2 == IF is_tick THEN is_debugging_tick(s1, nd) ELSE [s1 EXCEPT !.ok = FALSE]
        r == IF ~s.debug_check_ THEN [s EXCEPT !.ok = FALSE]
             ELSE IF s2.ok THEN [s2 EXCEPT !.ok = FALSE]
             ELSE [s2 EXCEPT !.is_debug_ = nd, !.ok = nd]
    IN [r EXCEPT !.ev.dbg = Append(@,
          [is_tick |-> is_tick, check |-> s.debug_check_, sol |-> s.sol_,
           tick |-> s.tick_, now |-> s.now, prev |-> s.is_debug_,
           skipped |-> s.ticks_skipped_, ret |-> r.ok,
           log |-> Drop(r.ev.log, Len(s.ev.log))])]

(* --------------------------- the waiting loops --------------------------- *)
\* control returns to the host
Return(s) == [Pop(s) EXCEPT !.ev.returned = TRUE]

\* tick's loop body after cmd_receive_one returned stat, lines 482-488
tick_after(s, stat) ==
    LET p == Top(s).response
        s1 == IF p # 0
              THEN DeleteBuffer(Log(s, "Unhandled response in tick."), p)
              ELSE s
    IN IF stat \in {"no_cmd", "conn_dead"}
       THEN Return(MutexUnlock(s1))
       ELSE s1

\* one pass of tick's drain loop, lines 479-486
tick_loop(s, setupOk, connOk, fillOk) ==
    LET s1 == cmd_receive_one(s, setupOk, connOk, fillOk)
    IN IF s1.stat = "nested" THEN s1 ELSE tick_after(s1, s1.stat)

\* the record of a cmd_receive_unhandled return: its result, the buffer and
\* its bytes, what the loop received and the handlers that ran meanwhile
RetEvent(s, ok) ==
    LET f == Top(s)
    IN [s EXCEPT !.ev.ret = Append(@,
          [kind |-> f.kind, ok |-> ok, response |-> f.response,
           data |-> IF f.response # 0 THEN s.heap[f.response].data ELSE << >>,
           seen |-> f.seen, ran |-> Drop(s.effects, f.eff0),
           nested |-> f.nested])]

\* public_call_after with the unlock of the failure path missing
public_call_after_NoUnlock(s, ok) ==
    LET p == Top(s).response
    IN IF ~ok \/ p = 0
       THEN Return(Log(s, "Received no response to callback."))
       ELSE
         LET data == s.heap[p].data
             s1 == MutexUnlock(s)
             s2 == IF Len(data) >= 5 /\ data[1] # 0
                   THEN [s1 EXCEPT !.ev.retval = Append(@, U32(Drop(data, 1)))]
                   ELSE s1
         IN Return(DeleteBuffer(s2, p))

\* public_call after cmd_receive_unhandled returned ok, lines 440-455
public_call_after(s, ok) ==
    LET p == Top(s).response
    IN IF ~ok \/ p = 0
       THEN Return(MutexUnlock(Log(s, "Received no response to callback.")))
       ELSE
         LET data == s.heap[p].data
             s1 == MutexUnlock(s)
             s2 == IF Len(data) >= 5 /\ data[1] # 0
                   THEN [s1 EXCEPT !.ev.retval = Append(@, U32(Drop(data, 1)))]
                   ELSE s1
         IN Return(DeleteBuffer(s2, p))

\* cmd_start after cmd_receive_unhandled returned ok, lines 166-174: the
\* handler ends, cmd_process returns handled to the loop below it
cmd_start_after(s, ok) ==
    LET f == Top(s)
        s1 == IF ~ok \/ f.response = 0
              THEN Log(s, "Received no response to callback OnGameModeInit.")
              ELSE DeleteBuffer(s, f.response)
        s2 == ProcEvent(Pop(s1), f.cmd, "handled", 0, Len(s1.heap))
    IN IF Top(s2).kind = "tick" THEN tick_after(s2, "handled") ELSE s2

\* wait_loop with a loop that goes on only while stat == handled
wait_loop_StopsOnNoCmd(s, setupOk, connOk, fillOk) ==
    LET s0 == [s EXCEPT !.stack[Len(s.stack)].response = 0]
        s1 == cmd_receive_one(s0, setupOk, connOk, fillOk)
    IN IF s1.stat \in {"handled", "nested"} THEN s1
       ELSE
         LET ok == s1.stat = "unhandled"
             s2 == RetEvent(s1, ok)
         IN IF Top(s2).kind = "public_call"
            THEN public_call_after(s2, ok)
            ELSE cmd_start_after(s2, ok)

\* one pass of the loop of cmd_receive_unhandled, lines 347-354, and what its
\* caller does when the loop ends
wait_loop(s, setupOk, connOk, fillOk) ==
    LET s0 == [s EXCEPT !.stack[Len(s.stack)].response = 0]
        s1 == cmd_receive_one(s0, setupOk, connOk, fillOk)
    IN IF s1.stat \in {"handled", "no_cmd", "nested"} THEN s1
       ELSE
         LET ok == s1.stat = "unhandled"
             s2 == RetEvent(s1, ok)
         IN IF Top(s2).kind = "public_call"
            THEN public_call_after(s2, ok)
            ELSE cmd_start_after(s2, ok)

frame_step(s, setupOk, connOk, fillOk) ==
    IF Top(s).kind = "tick"
    THEN tick_loop(s, setupOk, connOk, fillOk)
    ELSE wait_loop(s, setupOk, connOk, fillOk)

(* ----------------------------- host calls ------------------------------- *)
\* a new host call or a step of the idle world: the records of the previous
\* host call are dropped
Fresh(s) ==
    IF s.stack = << >>
    THEN [s EXCEPT !.heap = << >>, !.effects = << >>, !.received = << >>]
    ELSE s

\* tick_gate without the test of client_disconnecting
tick_gate_NoDisconnecting(s) ==
    /\ is_client_connected(s)
    /\ STATUS_ISSET(s.status_, {"client_started", "client_received_init"})
    /\ ~STATUS_ISSET(s.status_, {"client_reconnecting"})

\* the gate of tick, lines 461-464
tick_gate(s) ==
    /\ is_client_connected(s)
    /\ STATUS_ISSET(s.status_, {"client_started", "client_received_init"})
    /\ ~STATUS_ISSET(s.status_, {"client_reconnecting"})
    /\ ~STATUS_ISSET(s.status_, {"client_disconnecting"})

\* remote_server::tick up to its drain loop, lines 459-476
tick(s) ==
    LET s1 == MutexLock([s EXCEPT !.ev.op = "tick"])
        s2 == IF tick_gate(s1)
              THEN LET d == is_debugging(s1, TRUE)
                   IN IF ~d.ok
                      THEN Send([d EXCEPT !.tick_ = d.now], CMD_TICK, << >>)
                      ELSE d
              ELSE s1
    IN IF s1.halted # "run" THEN s1
       ELSE Push(s2, Frame("tick", "", Cmd(0, << >>), s2))

\* public_call_gate without the test of client_started
public_call_gate_NoStarted(s) ==
    /\ is_client_connected(s)
    /\ ~STATUS_ISSET(s.status_, {"client_reconnecting"})
    /\ ~STATUS_ISSET(s.status_, {"client_disconnecting"})

\* the first gate of public_call, lines 406-409
public_call_gate(s) ==
    /\ is_client_connected(s)
    /\ STATUS_ISSET(s.status_, {"client_started"})
    /\ ~STATUS_ISSET(s.status_, {"client_reconnecting"})
    /\ ~STATUS_ISSET(s.status_, {"client_disconnecting"})

\* lines 396-404
public_call_note_init(s, name) ==
    IF name = "OnGameModeInit"
    THEN [s EXCEPT !.status_ = STATUS_SET(@, {"server_received_init"})]
    ELSE IF name = "OnGameModeExit"
    THEN [s EXCEPT !.status_ = STATUS_UNSET(@, {"server_received_init"})]
    ELSE s

\* lines 427-437: serialise, lock, send, and wait as a new frame
public_call_send(s, name, fillOk) ==
    LET s1 == fill_call_buffer(s, name, fillOk)
        s2 == MutexLock(s1)
        s3 == Send(s2, CMD_PUBLIC_CALL, CallPayload(name))
    IN IF ~s1.ok THEN s1
       ELSE IF s2.halted # "run" THEN s2
       ELSE Push(s3, Frame("public_call", name, Cmd(0, << >>), s3))

\* remote_server::public_call up to its wait, lines 395-437
public_call_body(s, name, fillOk) ==
    LET s1 == public_call_note_init(s, name)
        s2 == IF name = "OnGameModeInit"
              THEN [s1 EXCEPT !.status_ = STATUS_SET(@, {"client_received_init"})]
              ELSE s1
        d == is_debugging(s2, FALSE)
    IN IF ~public_call_gate(s1) THEN s1
       ELSE IF ~STATUS_ISSET(s2.status_, {"client_received_init"}) THEN s2
       ELSE IF d.ok THEN d
       ELSE public_call_send(d, name, fillOk)

\* public_call with the record of the call: the status and the connection
\* at entry, whether a command was sent and whether the lock was taken
public_call(s, name, fillOk) ==
    LET r == public_call_body([s EXCEPT !.ev.op = "public_call"], name, fillOk)
    IN [r EXCEPT !.ev.pcall = Append(@,
          [name |-> name, status |-> s.status_, connected |-> is_client_connected(s),
           sent |-> r.ev.sent, locks |-> r.ev.locks,
           returned |-> r.stack = << >>])]

(* ------------------------------ the client ------------------------------ *)
\* the commands the client sends: every opcode of the receive table, with
\* empty and non-empty payloads where the payload matters, and two opcodes
\* that are not in the table
ClientCmds ==
    { Cmd(CMD_PING, << >>), Cmd(CMD_PRINT, << 72 >>),
      Cmd(CMD_RESPONSE, << >>), Cmd(CMD_RESPONSE, << 1, 7, 0, 0, 0 >>),
      Cmd(CMD_RECONNECT, << >>), Cmd(CMD_REGISTER_CALL, << 79 >>),
      Cmd(CMD_FIND_NATIVE, << 42, 0, 78 >>), Cmd(CMD_FIND_NATIVE, << 42, 0, 88 >>),
      Cmd(CMD_INVOKE_NATIVE, << 42, 0, 5 >>),
      Cmd(CMD_START, << >>), Cmd(CMD_START, << 1 >>), Cmd(CMD_START, << 2 >>),
      Cmd(CMD_START, << 3 >>),
      Cmd(CMD_DISCONNECT, << >>), Cmd(CMD_ALIVE, << >>),
      Cmd(0, << >>), Cmd(CMD_TICK, << 9 >>) }

\* the commands of a client that is observed for pauses
DebugCmds ==
    { Cmd(CMD_START, << >>), Cmd(CMD_RESPONSE, << 1 >>) }

\* the commands of a client that is served while the bridge waits for a reply
WaitCmds ==
    { Cmd(CMD_REGISTER_CALL, << 79 >>), Cmd(CMD_INVOKE_NATIVE, << 42, 0, 5 >>),
      Cmd(CMD_START, << 2 >>), Cmd(CMD_RECONNECT, << >>),
      Cmd(CMD_RESPONSE, << >>), Cmd(CMD_RESPONSE, << 1, 7, 0, 0, 0 >>) }

\* the commands of a client that looks up and invokes natives, under several
\* caller ids
NativeCmds ==
    { Cmd(CMD_FIND_NATIVE, << 42, 0, 78 >>), Cmd(CMD_FIND_NATIVE, << 42, 0, 88 >>),
      Cmd(CMD_FIND_NATIVE, << 1, 2, 78 >>), Cmd(CMD_FIND_NATIVE, << 255, 255, 88 >>),
      Cmd(CMD_INVOKE_NATIVE, << 42, 0, 5 >>), Cmd(CMD_INVOKE_NATIVE, << 1, 2 >>),
      Cmd(CMD_INVOKE_NATIVE, << 255, 255, 5, 6 >>) }

\* the commands of a client that starts, answers, and announces that it
\* reconnects or disconnects
TickCmds ==
    { Cmd(CMD_START, << >>), Cmd(CMD_RESPONSE, << 1 >>),
      Cmd(CMD_RECONNECT, << >>), Cmd(CMD_DISCONNECT, << >>) }

IsFakeGmx(c) == c.op = CMD_START /\ c.data = << 2 >>

\* the start commands in flight that may each open a nested round trip
PendingFakeGmx == Cardinality({i \in 1..Len(incoming) : IsFakeGmx(incoming[i])})

(* ------------------------------- actions -------------------------------- *)
\* a step ends; a step that released a buffer twice may stop the process
Finish(r) ==
    \/ Commit(r)
    \/ /\ r.ev.badfree
       /\ Commit([r EXCEPT !.halted = "crashed"])

Idle == stack = << >> /\ halted = "run"

\* the host's main loop calls tick
Tick ==
    /\ Idle
    /\ ticks_skipped_ < MaxSkipped
    /\ Finish(tick(Fresh(Cur)))

\* the host's scripting subsystem raises a callback
PublicCall(names) ==
    /\ Idle
    /\ \E name \in names, fillOk \in BOOLEAN :
         Finish(public_call(Fresh(Cur), name, fillOk))

\* terminate is called between two host calls
Terminate ==
    /\ Idle
    /\ \E setupOk \in BOOLEAN :
         Finish(terminate([Fresh(Cur) EXCEPT !.ev.op = "terminate"], "terminate", setupOk))

\* the innermost waiting call polls the transport once
Receive ==
    /\ halted = "run"
    /\ stack # << >>
    /\ \E setupOk \in BOOLEAN, connOk \in BOOLEAN, fillOk \in BOOLEAN :
         Finish(frame_step([Cur EXCEPT !.ev.op = "receive"], setupOk, connOk, fillOk))

\* the client sends a command
ClientSend(cmds, maxRecv) ==
    /\ halted = "run"
    /\ comm = "connected" /\ ~lost
    /\ Len(incoming) < MaxQueue
    /\ stack # << >> => Len(received) + Len(incoming) < maxRecv
    /\ \E c \in cmds :
         /\ IsFakeGmx(c) =>
              PendingFakeGmx + (IF stack = << >> THEN 1 ELSE Len(stack)) < MaxDepth
         /\ Commit([Fresh(Cur) EXCEPT !.incoming = Append(@, c)])

\* the client goes away without a word
ChannelLost ==
    /\ halted = "run"
    /\ comm = "connected" /\ ~lost
    /\ Commit([Fresh(Cur) EXCEPT !.lost = TRUE])

\* a time unit passes
AdvanceClock ==
    /\ halted = "run"
    /\ now < MaxTime
    /\ Commit([Fresh(Cur) EXCEPT !.now = @ + 1])

\* a time unit passes, up to maxTime
ClockTo(maxTime) ==
    /\ halted = "run"
    /\ now < maxTime
    /\ Commit([Fresh(Cur) EXCEPT !.now = @ + 1])

(* ---------------------------- specifications ---------------------------- *)
\* the state the constructor leaves, lines 56-64: no status bit, the
\* transport set up (or not, when setup failed)
InitWith(debug_check) ==
    /\ status_ = {}
    /\ comm \in {"ready", "closed"}
    /\ lost = FALSE
    /\ incoming = << >>
    /\ natives_ = {}
    /\ callbacks_ = {}
    /\ debug_check_ = debug_check
    /\ sol_ = 0
    /\ tick_ = 0
    /\ is_debug_ = FALSE
    /\ ticks_skipped_ = 0
    /\ now = 0
    /\ mutex_ = FALSE
    /\ stack = << >>
    /\ heap = << >>
    /\ effects = << >>
    /\ received = << >>
    /\ halted = "run"
    /\ ev = NoEv

\* the protocol, with debug checking off
Init == InitWith(FALSE)

Next ==
    \/ Tick
    \/ PublicCall(PublicNames)
    \/ Terminate
    \/ Receive
    \/ ClientSend(ClientCmds, MaxRecv)
    \/ ChannelLost

Spec == Init /\ [][Next]_vars

\* the bridge with debug checking on, a clock, and a client that starts,
\* shows signs of life and answers
InitDebug == InitWith(TRUE)

NextDebug ==
    \/ Tick
    \/ PublicCall({"OnGameModeInit"})
    \/ Receive
    \/ ClientSend(DebugCmds, MaxRecvDebug)
    \/ AdvanceClock

SpecDebug == InitDebug /\ [][NextDebug]_vars

\* a client whose commands are served while the bridge waits for a reply
NextWait ==
    \/ Tick
    \/ PublicCall(PublicNames)
    \/ Receive
    \/ ClientSend(WaitCmds, MaxRecvWait)

SpecWait == Init /\ [][NextWait]_vars

\* a client that looks up and invokes natives while the host ticks
NextNative ==
    \/ Tick
    \/ Receive
    \/ ClientSend(NativeCmds, MaxRecvNative)

SpecNative == Init /\ [][NextNative]_vars

\* the bridge with debug checking on, a clock, and a client that starts and
\* answers, reconnects and disconnects
NextTick ==
    \/ Tick
    \/ PublicCall({"OnGameModeInit"})
    \/ Receive
    \/ ClientSend(TickCmds, MaxRecvTick)
    \/ ClockTo(MaxTimeTick)

SpecTick == InitDebug /\ [][NextTick]_vars

(* ======================================================================== *)
(*                                the claims                                *)
(* ======================================================================== *)
Elems(q) == {q[i] : i \in 1..Len(q)}

\* the opcodes of the receive table that have a handler
BuiltinOps ==
    {CMD_PING, CMD_PRINT, CMD_RECONNECT, CMD_REGISTER_CALL, CMD_FIND_NATIVE,
     CMD_INVOKE_NATIVE, CMD_START, CMD_DISCONNECT, CMD_ALIVE}

\* cmd_process handed back a new buffer holding exactly the payload
FreshCopy(p) ==
    /\ p.resp > p.before
    /\ p.resp \in 1..Len(heap)
    /\ heap[p.resp].data = p.cmd.data
    /\ Len(heap[p.resp].data) = Len(p.cmd.data)

\* C1 as stated: a built-in is handled and hands back no buffer; response and
\* every unmapped opcode is unhandled and hands back a fresh copy of the
\* payload, whatever the payload.
C1_Original ==
    \A p \in Elems(ev.proc) :
        IF p.cmd.op \in BuiltinOps
        THEN p.stat = "handled" /\ p.resp = 0
        ELSE p.stat = "unhandled" /\ FreshCopy(p)

\* C1 (amended): every processed command with a built-in opcode is handled
\* and hands back no buffer; every other opcode is unhandled, with a fresh
\* byte-exact copy of the payload when the payload is not empty and with no
\* buffer at all when it is empty.
C1_Dispatch ==
    \A p \in Elems(ev.proc) :
        IF p.cmd.op \in BuiltinOps
        THEN p.stat = "handled" /\ p.resp = 0
        ELSE /\ p.stat = "unhandled"
             /\ IF p.cmd.data # << >> THEN FreshCopy(p) ELSE p.resp = 0

\* a step in which a non-empty response was handed back as a copy and the
\* start command whose handler waited for it was reported handled
C1_Witness ==
    /\ \E p \in Elems(ev.proc) :
         p.cmd.op = CMD_RESPONSE /\ p.cmd.data # << >> /\ p.stat = "unhandled"
           /\ p.resp > 0
    /\ \E p \in Elems(ev.proc) : p.cmd.op = CMD_START /\ p.stat = "handled"

(* ---------------------------------- C2 ---------------------------------- *)
WaitFrames == {i \in 1..Len(stack) : stack[i].kind # "tick"}

AllBuiltin(q) == \A i \in 1..Len(q) : q[i].op \in BuiltinOps

\* built-in commands followed by one non-empty response
BuiltinsThenResponse(q) ==
    /\ q # << >>
    /\ AllBuiltin(Front(q))
    /\ Last(q).op = CMD_RESPONSE
    /\ Last(q).data # << >>

C2_Frames ==
    \A i \in WaitFrames :
        ~stack[i].nested =>
            /\ AllBuiltin(stack[i].seen)
            /\ Drop(effects, stack[i].eff0) = stack[i].seen

\* cmd_receive_unhandled returns false only on a dead channel; and when it
\* returns a buffer, with no nested round trip inside the call, the buffer
\* holds the payload of the last command received, which is not a built-in,
\* and the commands before it are built-ins whose handlers ran once each, in
\* the order of arrival
C2_Returns ==
    \A r \in Elems(ev.ret) :
        /\ ~r.ok => Last(ev.polls) = "conn_dead"
        /\ (r.ok /\ r.response # 0 /\ ~r.nested) =>
               /\ r.seen # << >>
               /\ Last(r.seen).op \notin BuiltinOps
               /\ r.data = Last(r.seen).data
               /\ r.data # << >>
               /\ AllBuiltin(Front(r.seen))
               /\ r.ran = Front(r.seen)

\* a poll that finds no command, on a live connection, changes nothing
C2_EmptyPoll ==
    (/\ stack # << >>
     /\ stack[Len(stack)].kind # "tick"
     /\ comm = "connected"
     /\ ev'.op = "receive"
     /\ ev'.polls = << "no_cmd" >>)
    => /\ UNCHANGED << status_, comm, lost, incoming, natives_, callbacks_,
                       mutex_, stack, heap, effects, received, halted >>
       /\ ev'.sent = << >>

C3_MaySend(p) ==
    /\ p.connected
    /\ "client_started" \in p.status
    /\ "client_reconnecting" \notin p.status
    /\ "client_disconnecting" \notin p.status
    /\ ("client_received_init" \in p.status \/ p.name = "OnGameModeInit")

\* C3: public_call sends a public-call command only if the client is
\* connected and started, neither reconnecting nor disconnecting, and has
\* received init or the callback is OnGameModeInit; in every other state it
\* returns at once, having sent nothing and not touched the lock.
C3_PublicCallGate ==
    \A p \in Elems(ev.pcall) :
        /\ p.sent # << >> =>
             /\ C3_MaySend(p)
             /\ \A c \in Elems(p.sent) : c.op = CMD_PUBLIC_CALL
        /\ ~C3_MaySend(p) => p.sent = << >> /\ p.locks = 0 /\ p.returned

\* OnGameModeInit raised while the connected client has not started
C3_Witness ==
    \E p \in Elems(ev.pcall) :
        /\ p.name = "OnGameModeInit"
        /\ p.connected
        /\ "client_started" \notin p.status
        /\ p.sent = << >> /\ p.locks = 0 /\ p.returned

(* ---------------------------------- C4 ---------------------------------- *)
\* C4: whenever control is back with the host the shared lock is free; it is
\* never unlocked while free nor locked while held, every tick takes it once,
\* and the step that returns from a waiting tick or public_call releases it
\* exactly once.
C4_LockReleased ==
    /\ stack = << >> => ~mutex_
    /\ ~ev.badunlock
    /\ halted # "deadlock"
    /\ ev.op = "tick" => ev.locks = 1
    /\ ev.returned => ev.unlocks = 1 /\ ev.locks = 0

\* public_call returns on its failure path: no reply, lock released
C4_Witness ==
    /\ ev.returned
    /\ "Received no response to callback." \in Elems(ev.log)
    /\ ev.unlocks = 1
    /\ ~mutex_

(* ---------------------------------- C5 ---------------------------------- *)
\* the public-call commands sent whose reply is still awaited: one by each
\* waiting public_call and each waiting fake-init start handler
InFlight == Cardinality(WaitFrames)

\* C5: at most one request/response round trip is in flight at any time.
C5_OneRoundTrip == InFlight <= 1

(* ---------------------------------- C6 ---------------------------------- *)
\* C6: no reply buffer is released twice, and when control is back with the
\* host every reply buffer of the call has been released.
C6_ReleasedOnce ==
    /\ \A i \in 1..Len(heap) : heap[i].frees <= 1
    /\ ~ev.badfree
    /\ stack = << >> => \A i \in 1..Len(heap) : heap[i].frees = 1

(* ---------------------------------- C7 ---------------------------------- *)
\* C7: a disconnect of a connected client that is expected (the reconnect
\* command) leaves both registries as they were; one that is not expected,
\* client-initiated or not, leaves both empty.
C7_Registries ==
    \A d \in Elems(ev.dc) :
        d.pre.connected =>
            /\ natives_ = d.post.natives /\ callbacks_ = d.post.callbacks
            /\ IF d.expected
               THEN /\ d.post.natives = d.pre.natives
                    /\ d.post.callbacks = d.pre.callbacks
               ELSE d.post.natives = {} /\ d.post.callbacks = {}

\* a reconnect with both registries filled
C7_Witness ==
    \E d \in Elems(ev.dc) :
        /\ d.pre.connected /\ d.expected
        /\ d.pre.natives # {} /\ d.pre.callbacks # {}
        /\ natives_ # {} /\ callbacks_ # {}

(* ---------------------------------- C8 ---------------------------------- *)
\* C8: after an unexpected disconnect client_started and client_received_init
\* are clear, both registries are empty, client_connected is clear and the
\* transport is armed again (when its setup succeeds).
C8_UnexpectedDisconnect ==
    \A d \in Elems(ev.dc) :
        (d.pre.connected /\ ~d.expected
           /\ "client_disconnecting" \notin d.pre.status) =>
            /\ "client_started" \notin d.post.status
            /\ "client_received_init" \notin d.post.status
            /\ d.post.natives = {} /\ d.post.callbacks = {}
            /\ "client_connected" \notin d.post.status
            /\ d.setup => d.post.comm = "ready"

(* ---------------------------------- C9 ---------------------------------- *)
\* C9: client_received_init set implies client_started set.
C9_InitImpliesStarted ==
    "client_received_init" \in status_ => "client_started" \in status_

(* ---------------------------------- C10 --------------------------------- *)
PauseLogs(d) == Cardinality({i \in 1..Len(d.log) : d.log[i] = "Debugger pause detected."})
ResumeLogs(d) == Cardinality({i \in 1..Len(d.log) : d.log[i] = "Debugger resume detected."})
Keepalive(d) == d.is_tick /\ "Keepalive tick." \in Elems(d.log)

\* the edges are logged once each: a pause when the classification turns
\* paused, a resume when it turns back, nothing while it stays
C10_EdgesLogged(d, class) ==
    /\ PauseLogs(d) = IF class /\ ~d.prev THEN 1 ELSE 0
    /\ ResumeLogs(d) = IF ~class /\ d.prev THEN 1 ELSE 0

TickSent == \E c \in Elems(ev.sent) : c.op = CMD_TICK

\* is_debugging was called from tick while the peer was already classified
\* paused and still is
PausedTick(d) ==
    d.is_tick /\ d.check /\ d.prev /\ d.tick - d.sol >= DEBUG_PAUSE_TIMEOUT

\* C11: while the peer is classified paused, a tick call made when the
\* skipped-tick counter has reached 50 and at least 7 time units passed since
\* the last sent tick sends a tick command and resets the counter to 0; a
\* tick call made before both thresholds are met sends no tick.
C11_Keepalive ==
    \A d \in Elems(ev.dbg) :
        PausedTick(d) =>
            IF d.skipped >= DEBUG_PAUSE_TICK_MIN_SKIP
                 /\ d.now - d.tick >= DEBUG_PAUSE_TICK_INTERVAL
            THEN TickSent /\ ticks_skipped_ = 0
            ELSE ~TickSent

(* ---------------------------------- C12 --------------------------------- *)
\* a tick call is in progress
InTick == stack # << >> /\ stack[1].kind = "tick"

\* C12: every tick call returns to the host: its drain loop ends at the first
\* poll that finds no command or a dead channel, whatever was received before
\* (a start of mode 2 included) and even if the client never replies; so
\* after a poll with one of these results no tick call is still in progress.
C12_TickReturns ==
    (/\ ev.op = "receive"
     /\ ev.polls # << >>
     /\ Last(ev.polls) \in {"no_cmd", "conn_dead"})
    => ~InTick

(* ---------------------------------- C13 --------------------------------- *)
\* the caller id of a native request or of its answer: the first two bytes
CallerId(data) == SubSeq(data, 1, 2)

\* C13: a find_native or invoke_native request with caller id c is answered
\* by exactly one command whose payload starts with the same two bytes; for
\* find_native the rest is the handle as four little-endian bytes, so caller
\* id 0x2A with a name that is not found gives 2A 00 FF FF FF FF; for
\* invoke_native the rest is the result of the native.
C13_NativeReply ==
    \A p \in Elems(ev.proc) :
        p.cmd.op \in {CMD_FIND_NATIVE, CMD_INVOKE_NATIVE} =>
            /\ Len(ev.sent) = 1
            /\ LET pay == ev.sent[1].data
                   arg == Drop(p.cmd.data, 2)
               IN /\ Len(pay) >= 2
                  /\ CallerId(pay) = CallerId(p.cmd.data)
                  /\ p.cmd.op = CMD_FIND_NATIVE =>
                       /\ Len(pay) = 6
                       /\ U32(Drop(pay, 2)) = NativeHandle(arg)
                       /\ (CallerId(p.cmd.data) = << 42, 0 >> /\ NativeHandle(arg) = -1)
                            => pay = << 42, 0, 255, 255, 255, 255 >>
                  /\ p.cmd.op = CMD_INVOKE_NATIVE =>
                       Drop(pay, 2) = natives_invoke(arg)

\* find_native with caller id 0x2A and a name that is not found, answered
C13_Witness ==
    /\ \E p \in Elems(ev.proc) :
         p.cmd = Cmd(CMD_FIND_NATIVE, << 42, 0, 88 >>) /\ p.stat = "handled"
    /\ Len(ev.sent) = 1
    /\ ev.sent[1].data = << 42, 0, 255, 255, 255, 255 >>

(* ---------------------------------- C14 --------------------------------- *)
\* the opcodes of the table of sent commands
SentOps == {CMD_TICK, CMD_PONG, CMD_PUBLIC_CALL, CMD_REPLY, CMD_ANNOUNCE}

\* C14: every command sent to the client carries an opcode of the table of
\* sent commands; the answer to find_native and to invoke_native is sent as a
\* reply (0x14), and a ping is answered with exactly one pong (0x12).
C14_SentOpcodes ==
    /\ \A c \in Elems(ev.sent) : c.op \in SentOps
    /\ \A p \in Elems(ev.proc) :
         /\ p.cmd.op \in {CMD_FIND_NATIVE, CMD_INVOKE_NATIVE} =>
              Len(ev.sent) = 1 /\ ev.sent[1].op = CMD_REPLY
         /\ p.cmd.op = CMD_PING =>
              Len(ev.sent) = 1 /\ ev.sent[1].op = CMD_PONG

(* ---------------------------------- C15 --------------------------------- *)
\* a start command whose mode byte is not 0, 1 or 2
InvalidStart(c) ==
    c.op = CMD_START /\ c.data # << >> /\ c.data[1] \notin {0, 1, 2}

\* the step in which such a command is processed: it is logged as invalid,
\* nothing is sent, no restart is issued, and the status flags and both
\* registries are after the step what they were before it
C15_Step ==
    (\E p \in Elems(ev'.proc) : InvalidStart(p.cmd)) =>
        /\ "Invalid game mode start mode" \in Elems(ev'.log)
        /\ ev'.sent = << >>
        /\ ev'.rcon = 0
        /\ status_' = status_
        /\ natives_' = natives_
        /\ callbacks_' = callbacks_

\* C15: a start command whose mode byte is not 0, 1 or 2 is logged as invalid
\* and causes no action: nothing is sent, no restart is issued, and the
\* status flags and the registries are unchanged.
C15_InvalidStart == [][C15_Step]_vars

(* ---------------------------------- C16 --------------------------------- *)
Announces(q) == Cardinality({i \in 1..Len(q) : q[i].op = CMD_ANNOUNCE})

\* every connect call: with the transport connected it changes nothing and
\* sends nothing; when it connects it sets client_connected, clears
\* client_reconnecting and sends one announce and nothing else; when it fails
\* no flag changes and nothing is sent
C16_Calls ==
    \A c \in Elems(ev.conn) :
        IF c.pre.comm = "connected"
        THEN c.ok /\ c.post = c.pre /\ c.sent = << >>
        ELSE IF c.ok
        THEN /\ c.post.comm = "connected"
             /\ c.post.status = (c.pre.status \cup {"client_connected"})
                                  \ {"client_reconnecting"}
             /\ Len(c.sent) = 1 /\ c.sent[1].op = CMD_ANNOUNCE
        ELSE /\ c.post.status = c.pre.status
             /\ c.post.comm # "connected"
             /\ c.sent = << >>

\* a step that opens a connection sends the announce first and once; a step
\* that does not sends no announce, and sends at all only on the connection
\* that was open before it
C16_Epoch ==
    IF comm # "connected" /\ (\E c \in Elems(ev'.conn) : c.ok)
    THEN /\ ev'.sent # << >>
         /\ Head(ev'.sent).op = CMD_ANNOUNCE
         /\ Announces(ev'.sent) = 1
    ELSE /\ Announces(ev'.sent) = 0
         /\ ev'.sent # << >> => comm = "connected"

\* C16: connect changes and sends nothing when the transport is connected;
\* when it opens a connection it sets client_connected, clears
\* client_reconnecting and sends exactly one announce, so in every connection
\* epoch the announce is sent once and before any other command; when the
\* attempt fails no flag changes and nothing is sent.
C16_Connect ==
    /\ []C16_Calls
    /\ [][C16_Epoch]_vars

\* a client that said it would reconnect has reconnected and was announced to
C16_Witness ==
    \E c \in Elems(ev.conn) :
        /\ c.ok /\ c.pre.comm # "connected"
        /\ "client_reconnecting" \in c.pre.status
        /\ "client_reconnecting" \notin status_
        /\ Announces(ev.sent) = 1

(* ---------------------------------- C17 --------------------------------- *)
\* everything of a state but the record of the disconnect calls themselves
Effect(s) ==
    << s.status_, s.comm, s.lost, s.incoming, s.natives_, s.callbacks_,
       s.sol_, s.tick_, s.is_debug_, s.ticks_skipped_, s.mutex_, s.stack,
       s.heap, s.halted, s.ev.sent, s.ev.log >>

\* the disconnect calls of this step: a call made while the client was not
\* connected changed nothing; a call made while it was connected closed the
\* transport, armed it again (when setup succeeds) and cleared client_connected
C17_Calls ==
    \A d \in Elems(ev.dc) :
        /\ ~d.pre.connected => d.post = d.pre
        /\ d.pre.connected =>
             /\ d.post.comm # "connected"
             /\ d.setup => d.post.comm = "ready"
        /\ "client_connected" \notin d.post.status
        /\ ~d.post.connected

\* disconnect called in the current state, and then once more
C17_Twice ==
    \A expected \in BOOLEAN, setup1 \in BOOLEAN, setup2 \in BOOLEAN :
        LET once == disconnect(Cur, "", expected, setup1)
            twice == disconnect(once, "", expected, setup2)
        IN /\ Effect(twice) = Effect(once)
           /\ "client_connected" \notin once.status_
           /\ ~is_client_connected(Cur) => Effect(once) = Effect(Cur)

\* C17: disconnect leaves all state unchanged when the client is not
\* connected; in each of its three outcomes it tears the transport down, arms
\* it again and clears client_connected; so calling it twice in a row has the
\* effect of calling it once, and client_connected is clear when it returns.
C17_Idempotent == C17_Calls /\ C17_Twice

\* terminate called after the client announced a reconnect and left: the
\* second disconnect in a row, with the registries still filled
C17_Witness ==
    /\ ev.op = "terminate"
    /\ \E d \in Elems(ev.dc) : ~d.pre.connected /\ d.post = d.pre
    /\ "client_reconnecting" \in status_
    /\ natives_ # {}

(* ---------------------------------- C18 --------------------------------- *)
\* the condition of C18, on the state in which tick is called
C18_MaySend ==
    /\ comm = "connected"
    /\ {"client_connected", "client_started", "client_received_init"} \subseteq status_
    /\ "client_reconnecting" \notin status_
    /\ "client_disconnecting" \notin status_

\* a call of tick sends a tick command only under the condition, stamps
\* tick_ with the current time when it sends one and leaves tick_ alone when
\* it does not; no other step sends a tick command or changes tick_
C18_Step ==
    IF ev'.op = "tick"
    THEN /\ Len(SelectSeq(ev'.sent, LAMBDA c : c.op = CMD_TICK)) <= 1
         /\ TickSent' => C18_MaySend /\ tick_' = now
         /\ ~TickSent' => tick_' = tick_
    ELSE ~TickSent' /\ tick_' = tick_

\* C18: tick sends a tick command only when the client is connected, started
\* and initialised and neither reconnecting nor disconnecting; tick_ is
\* updated exactly when a tick command is sent and unchanged by a tick call
\* that sends nothing.
C18_TickGate == [][C18_Step]_vars

\* a tick call that passed the gate and was suppressed: nothing sent, tick_
\* still the time of the last sent tick
C18_Witness ==
    /\ ev.op = "tick"
    /\ \E d \in Elems(ev.dbg) : d.is_tick /\ d.ret
    /\ ~TickSent
    /\ tick_ < now

(* ---------------------------------- C19 --------------------------------- *)
\* C19: the shared buffer buf_ is written, by the serialisation of an
\* outgoing public call or by the receipt of a command, only while the
\* writer holds the shared lock; public_call takes the lock before it
\* serialises the call.
C19_BufferUnderLock ==
    \A i \in 1..Len(ev.bufw) : ev.bufw[i]

(* ---------------------------------- C20 --------------------------------- *)
\* C20: client_received_init is set only when an OnGameModeInit public call
\* has actually been sent to the connected client: a public_call of
\* OnGameModeInit that sends nothing, because the peer is classified paused
\* or because the serialisation fails, leaves the flag as clear as it found it.
C20_InitOnlyWhenSent ==
    \A p \in Elems(ev.pcall) :
        (/\ p.name = "OnGameModeInit"
         /\ p.sent = << >>
         /\ "client_received_init" \notin p.status)
        => "client_received_init" \notin status_
====
